---- MODULE Spec2Model ----
(***************************************************************************)
(* Model of scripts/migrate-voice-data.py: the one-shot migration of the   *)
(* legacy voice timers into voice_time_aggregates.                         *)
(*                                                                         *)
(* Python strings are sequences of one-character strings, so that          *)
(* str.endswith, str.replace, str.split and int() are computed character   *)
(* by character as the interpreter computes them.                          *)
(***************************************************************************)
EXTENDS Integers, Sequences, FiniteSets, TLC

\* ------------------------------------------------------------------ bounds
\* Longest key of the key-extraction specification, in fragments.
MaxKeyParts == 3
\* Most colon-separated segments of a duration string of the parser
\* specification.
MaxSegs == 5
\* Most entries of one section of the JSON document in the aggregation
\* specification.
MaxEntries == 2
\* Runs of the script in succession in the pipeline specification.
MaxRuns == 2

\* --------------------------------------------------------- string helpers
Range(s) == {s[i] : i \in 1..Len(s)}

\* str.endswith(suffix)
EndsWith(s, suffix) ==
    /\ Len(s) >= Len(suffix)
    /\ SubSeq(s, Len(s) - Len(suffix) + 1, Len(s)) = suffix

\* str.replace(old, new): every non-overlapping occurrence, left to right.
RECURSIVE StrReplace(_, _, _)
StrReplace(s, old, new) ==
    IF Len(s) < Len(old) THEN s
    ELSE IF SubSeq(s, 1, Len(old)) = old
         THEN new \o StrReplace(SubSeq(s, Len(old) + 1, Len(s)), old, new)
         ELSE <<Head(s)>> \o StrReplace(Tail(s), old, new)

\* str.split(sep) for a one-character separator: always at least one
\* segment, empty segments kept.
RECURSIVE StrSplit(_, _)
StrSplit(s, sep) ==
    IF sep \notin Range(s) THEN <<s>>
    ELSE LET i == CHOOSE j \in 1..Len(s) :
                      s[j] = sep /\ \A k \in 1..(j - 1) : s[k] # sep
         IN  <<SubSeq(s, 1, i - 1)>> \o StrSplit(SubSeq(s, i + 1, Len(s)), sep)

\* str.strip() of ASCII blanks.
RECURSIVE StrStrip(_)
StrStrip(s) ==
    IF s = <<>> THEN s
    ELSE IF Head(s) = " " THEN StrStrip(Tail(s))
    ELSE IF s[Len(s)] = " " THEN StrStrip(SubSeq(s, 1, Len(s) - 1))
    ELSE s

Digits == {"0", "1", "2", "3", "4", "5", "6", "7", "8", "9"}

DigitVal(c) ==
    CASE c = "0" -> 0 [] c = "1" -> 1 [] c = "2" -> 2 [] c = "3" -> 3
      [] c = "4" -> 4 [] c = "5" -> 5 [] c = "6" -> 6 [] c = "7" -> 7
      [] c = "8" -> 8 [] c = "9" -> 9

\* Value of a run of decimal digits in which single underscores may
\* separate digits (they are ignored).
RECURSIVE DecValue(_, _)
DecValue(s, acc) ==
    IF s = <<>> THEN acc
    ELSE IF Head(s) = "_" THEN DecValue(Tail(s), acc)
    ELSE DecValue(Tail(s), acc * 10 + DigitVal(Head(s)))

\* The digit part int() accepts: digits, single underscores between digits.
DigitBody(s) ==
    /\ s # <<>>
    /\ Range(s) \subseteq (Digits \cup {"_"})
    /\ s[1] # "_"
    /\ s[Len(s)] # "_"
    /\ \A i \in 1..(Len(s) - 1) : ~(s[i] = "_" /\ s[i + 1] = "_")

\* int(x) on a string: blanks around are stripped, one optional sign, then
\* the digit part; anything else raises ValueError.  Python integers are
\* unbounded, so no width is modelled.
PyInt(x) ==
    LET t    == StrStrip(x)
        sign == IF t # <<>> /\ Head(t) \in {"+", "-"} THEN Head(t) ELSE ""
        body == IF sign = "" THEN t ELSE Tail(t)
    IN  IF DigitBody(body)
        THEN [ok |-> TRUE,
              val |-> IF sign = "-" THEN 0 - DecValue(body, 0)
                      ELSE DecValue(body, 0)]
        ELSE [ok |-> FALSE, val |-> 0]

\* -------------------------------------------------- the two pure functions
SecondsPerDay == 86400
SecondsPerHour == 3600
SecondsPerMinute == 60

\* A mis-weighted sum: hours counted as minutes.
parse_time_to_seconds_hours_as_minutes(time_string) ==
    LET parts == [i \in 1..Len(StrSplit(time_string, ":")) |->
                     PyInt(StrSplit(time_string, ":")[i])]
    IN  IF \E i \in 1..Len(parts) : ~parts[i].ok
        THEN [ok |-> FALSE, val |-> 0]
        ELSE IF Len(parts) # 4
        THEN [ok |-> FALSE, val |-> 0]
        ELSE [ok |-> TRUE,
              val |-> (parts[1].val * SecondsPerDay)
                    + (parts[2].val * SecondsPerMinute)
                    + (parts[3].val * SecondsPerMinute) + parts[4].val]

\* parse_time_to_seconds: [ok |-> TRUE, val |-> seconds], or ok = FALSE
\* when the call raises ValueError (from int() or from the length check).
parse_time_to_seconds(time_string) ==
    LET parts == [i \in 1..Len(StrSplit(time_string, ":")) |->
                     PyInt(StrSplit(time_string, ":")[i])]
    IN  IF \E i \in 1..Len(parts) : ~parts[i].ok
        THEN [ok |-> FALSE, val |-> 0]
        ELSE IF Len(parts) # 4
        THEN [ok |-> FALSE, val |-> 0]
        ELSE [ok |-> TRUE,
              val |-> (parts[1].val * SecondsPerDay)
                    + (parts[2].val * SecondsPerHour)
                    + (parts[3].val * SecondsPerMinute) + parts[4].val]

VoiceSuffix == <<"_", "v", "o", "i", "c", "e">>

\* The absent value (None) and a present string.
None == [some |-> FALSE, val |-> <<>>]
Some(s) == [some |-> TRUE, val |-> s]

\* extract_user_id_from_voice_key
extract_user_id_from_voice_key(key) ==
    IF ~EndsWith(key, VoiceSuffix) THEN None
    ELSE Some(StrReplace(key, VoiceSuffix, <<>>))

\* Truth value of `if user_id:` -- None and the empty string are both false.
Truthy(user_id) == user_id.some /\ user_id.val # <<>>


\* --------------------------------------------------------------- the state
VARIABLES
    pc,           \* position of the script (or of the function under test)
    key,          \* argument of extract_user_id_from_voice_key
    user_id,      \* its result
    segs,         \* the segments a duration string was written from
    time_string,  \* argument of parse_time_to_seconds
    seconds,      \* its result
    data,         \* the loaded JSON document: the two sections, in file order
    idx,          \* position of the running for loop in its section
    voice_data,   \* the aggregate dict, in insertion order
    conn,         \* "none", "open" or "closed"
    close_count,  \* calls of conn.close() in this run
    db,           \* committed contents of the store
    tx,           \* contents as seen by the connection's open transaction
    upserted,     \* rows of insert_data the batch statement has applied
    raised_at,    \* statement that raised in this run, or "none"
    committed,    \* conn.commit() returned in this run
    exit_code,    \* exit status of the process, -1 while it runs
    runs,         \* runs of the script started so far
    db_at_start,  \* committed contents when this run started
    prev_committed, \* the previous run committed its transaction
    clock         \* NOW() of the store during this run

vars == <<pc, key, user_id, segs, time_string, seconds, data, idx, voice_data,
          conn, close_count, db, tx, upserted, raised_at, committed, exit_code,
          runs, db_at_start, prev_committed, clock>>

keyVars == <<key, user_id>>
parseVars == <<segs, time_string, seconds>>
runVars == <<data, idx, voice_data, conn, close_count, db, tx, upserted,
             raised_at, committed, exit_code, runs, db_at_start,
             prev_committed, clock>>

GUILD_ID == "367904135548239872"

EmptyDb == [guilds |-> {}, agg |-> <<>>]
EmptyData == [lifetime_sums |-> <<>>, this_week_time_sums |-> <<>>]

IdleKey == key = <<>> /\ user_id = None
IdleParse == segs = <<>> /\ time_string = <<>> /\ seconds = [ok |-> FALSE, val |-> 0]
IdleRun ==
    /\ data = EmptyData /\ idx = 1 /\ voice_data = <<>>
    /\ conn = "none" /\ close_count = 0
    /\ db = EmptyDb /\ tx = EmptyDb /\ upserted = 0
    /\ raised_at = "none" /\ committed = FALSE /\ exit_code = -1
    /\ runs = 1 /\ db_at_start = EmptyDb /\ prev_committed = FALSE
    /\ clock = 1

\* ------------------------------ specification of the key extractor (SpecKey)
KeyFragments == {<<"a">>, <<"b", "7">>, VoiceSuffix, <<"_", "v", "o">>}

RECURSIVE Concat(_)
Concat(ss) == IF ss = <<>> THEN <<>> ELSE Head(ss) \o Concat(Tail(ss))

KeyInputs ==
    {Concat(f) : f \in UNION {[1..n -> KeyFragments] : n \in 0..MaxKeyParts}}

InitKey ==
    /\ pc = "extract"
    /\ key \in KeyInputs
    /\ user_id = None
    /\ IdleParse /\ IdleRun

ExtractCall ==
    /\ pc = "extract"
    /\ user_id' = extract_user_id_from_voice_key(key)
    /\ pc' = "extracted"
    /\ UNCHANGED <<key, parseVars, runVars>>

NextKey == ExtractCall

SpecKey == InitKey /\ [][NextKey]_vars

\* ---------------------------- specification of the duration parser (SpecParse)
Str2(a, b) == <<a, b>>

\* Segments a duration string is written from: the text, whether the text
\* is a non-negative integer in decimal digits, and the number it writes.
SegTable ==
    { [text |-> <<"0">>,        nat |-> TRUE,  val |-> 0],
      [text |-> <<"7">>,        nat |-> TRUE,  val |-> 7],
      [text |-> Str2("0", "4"), nat |-> TRUE,  val |-> 4],
      [text |-> Str2("1", "2"), nat |-> TRUE,  val |-> 12],
      [text |-> <<>>,           nat |-> FALSE, val |-> 0],
      [text |-> <<"a">>,        nat |-> FALSE, val |-> 0],
      [text |-> Str2(" ", "5"), nat |-> FALSE, val |-> 0],
      [text |-> Str2("-", "3"), nat |-> FALSE, val |-> 0] }

\* ":".join(texts)
RECURSIVE JoinColon(_)
JoinColon(ts) ==
    IF Len(ts) = 0 THEN <<>>
    ELSE IF Len(ts) = 1 THEN ts[1].text
    ELSE ts[1].text \o <<":">> \o JoinColon(Tail(ts))

InitParse ==
    /\ pc = "parse"
    /\ segs \in UNION {[1..n -> SegTable] : n \in 1..MaxSegs}
    /\ time_string = JoinColon(segs)
    /\ seconds = [ok |-> FALSE, val |-> 0]
    /\ IdleKey /\ IdleRun

ParseCall ==
    /\ pc = "parse"
    /\ seconds' = parse_time_to_seconds(time_string)
    /\ pc' = "parsed"
    /\ UNCHANGED <<segs, time_string, keyVars, runVars>>

NextParse == ParseCall

SpecParse == InitParse /\ [][NextParse]_vars

\* C3: for every key that ends with "_voice" the result is the key with only
\* that trailing suffix removed (earlier occurrences of "_voice" are kept);
\* for every other key the result is None.
C3_SuffixOnly ==
    pc = "extracted" =>
        IF EndsWith(key, VoiceSuffix)
        THEN user_id = Some(SubSeq(key, 1, Len(key) - Len(VoiceSuffix)))
        ELSE user_id = None

DictHas(d, u) == \E i \in 1..Len(d) : d[i].user_id = u

DictIndex(d, u) == CHOOSE i \in 1..Len(d) : d[i].user_id = u

\* d[u] = item: a new key is appended, an existing key keeps its place.
DictSet(d, u, item) ==
    IF DictHas(d, u)
    THEN [d EXCEPT ![DictIndex(d, u)] = item]
    ELSE Append(d, item)

\* The mapping a dict stands for, without its order.
AsMapping(d) == Range(d)

\* Body of `for key, time_string in data['lifetime_sums'].items()` for one
\* item: the dict after it, or raised when parse_time_to_seconds raises.
LifetimeItem(d, entry) ==
    LET uid == extract_user_id_from_voice_key(entry.key)
        r   == parse_time_to_seconds(entry.value)
    IN  IF ~Truthy(uid) THEN [raised |-> FALSE, dict |-> d]
        ELSE IF ~r.ok THEN [raised |-> TRUE, dict |-> d]
        ELSE [raised |-> FALSE,
              dict |-> DictSet(d, uid.val,
                          [user_id |-> uid.val,
                           lifetime_seconds |-> r.val,
                           weekly_seconds |-> 0])]

\* Body of `for key, time_string in data['this_week_time_sums'].items()`.
WeeklyItem(d, entry) ==
    LET uid == extract_user_id_from_voice_key(entry.key)
        r   == parse_time_to_seconds(entry.value)
    IN  IF ~Truthy(uid) THEN [raised |-> FALSE, dict |-> d]
        ELSE IF ~r.ok THEN [raised |-> TRUE, dict |-> d]
        ELSE IF DictHas(d, uid.val)
        THEN [raised |-> FALSE,
              dict |-> [d EXCEPT ![DictIndex(d, uid.val)].weekly_seconds = r.val]]
        ELSE [raised |-> FALSE,
              dict |-> Append(d, [user_id |-> uid.val,
                                  lifetime_seconds |-> r.val,
                                  weekly_seconds |-> r.val])]

\* ------------------------------------------------------------ the store
\* guild_settings is the set of its guild ids; voice_time_aggregates maps
\* the user ids of GUILD_ID to [total_seconds, weekly_seconds,
\* weekly_updated_at].  updated_at is left out: the script sets it on
\* conflict only and its value on insert is the table's default.

\* INSERT INTO guild_settings ... ON CONFLICT (guild_id) DO NOTHING
InsertGuildIfAbsent(store) ==
    [store EXCEPT !.guilds = @ \cup {GUILD_ID}]

\* An additive merge in place of the overwrite.
UpsertRowAdditive(agg, row, now) ==
    [u \in DOMAIN agg \cup {row[1]} |->
        IF u # row[1] THEN agg[u]
        ELSE IF u \in DOMAIN agg
        THEN [total_seconds |-> agg[u].total_seconds + row[3],
              weekly_seconds |-> agg[u].weekly_seconds + row[4],
              weekly_updated_at |-> now]
        ELSE [total_seconds |-> row[3],
              weekly_seconds |-> row[4],
              weekly_updated_at |-> now]]

\* One row of the batch: INSERT ... ON CONFLICT (user_id, guild_id) DO UPDATE
\* SET total_seconds = EXCLUDED.total_seconds, weekly_seconds =
\* EXCLUDED.weekly_seconds, weekly_updated_at = NOW().
UpsertRow(agg, row, now) ==
    [u \in DOMAIN agg \cup {row[1]} |->
        IF u # row[1] THEN agg[u]
        ELSE IF u \in DOMAIN agg
        THEN [agg[u] EXCEPT !.total_seconds = row[3],
                            !.weekly_seconds = row[4],
                            !.weekly_updated_at = now]
        ELSE [total_seconds |-> row[3],
              weekly_seconds |-> row[4],
              weekly_updated_at |-> now]]

\* The first n rows of the batch applied in order.
RECURSIVE UpsertRows(_, _, _, _)
UpsertRows(agg, rows, n, now) ==
    IF n = 0 THEN agg
    ELSE UpsertRow(UpsertRows(agg, rows, n - 1, now), rows[n], now)

\* insert_data: one tuple per item of voice_data, in dict order.
insert_data ==
    [i \in 1..Len(voice_data) |->
        <<voice_data[i].user_id, GUILD_ID,
          voice_data[i].lifetime_seconds, voice_data[i].weekly_seconds>>]

\* A connection that commits every statement as it executes.
autocommit_on == TRUE

\* psycopg2.connect leaves autocommit off and the script never sets it:
\* the first execute opens a transaction that lasts until commit/rollback.
autocommit == FALSE

\* Committed contents after a statement left the transaction at `pending`.
AfterStatement(store, pending) == IF autocommit THEN pending ELSE store

\* Where control goes when the except block is left: the exception is
\* re-raised through the finally clause.
leave_except_skipping_finally == "raised"

leave_except == "finally"

\* ------------------------------------------------------------- the script
\* The for loop over data['lifetime_sums'] (lines 55-62), one item.
ProcessLifetimeItem ==
    /\ pc = "lifetime"
    /\ idx <= Len(data.lifetime_sums)
    /\ LET r == LifetimeItem(voice_data, data.lifetime_sums[idx])
       IN  /\ voice_data' = r.dict
           /\ IF r.raised
              THEN pc' = "raised" /\ raised_at' = "parse" /\ idx' = idx
              ELSE pc' = pc /\ raised_at' = raised_at /\ idx' = idx + 1
    /\ UNCHANGED <<keyVars, parseVars, data, conn, close_count, db, tx,
                   upserted, committed, exit_code, runs, db_at_start,
                   prev_committed, clock>>

EndLifetimeLoop ==
    /\ pc = "lifetime"
    /\ idx > Len(data.lifetime_sums)
    /\ pc' = "weekly"
    /\ idx' = 1
    /\ UNCHANGED <<keyVars, parseVars, data, voice_data, conn, close_count,
                   db, tx, upserted, raised_at, committed, exit_code, runs,
                   db_at_start, prev_committed, clock>>

\* The for loop over data['this_week_time_sums'] (lines 65-76), one item.
ProcessWeeklyItem ==
    /\ pc = "weekly"
    /\ idx <= Len(data.this_week_time_sums)
    /\ LET r == WeeklyItem(voice_data, data.this_week_time_sums[idx])
       IN  /\ voice_data' = r.dict
           /\ IF r.raised
              THEN pc' = "raised" /\ raised_at' = "parse" /\ idx' = idx
              ELSE pc' = pc /\ raised_at' = raised_at /\ idx' = idx + 1
    /\ UNCHANGED <<keyVars, parseVars, data, conn, close_count, db, tx,
                   upserted, committed, exit_code, runs, db_at_start,
                   prev_committed, clock>>

EndWeeklyLoop ==
    /\ pc = "weekly"
    /\ idx > Len(data.this_week_time_sums)
    /\ pc' = "connect"
    /\ idx' = 1
    /\ UNCHANGED <<keyVars, parseVars, data, voice_data, conn, close_count,
                   db, tx, upserted, raised_at, committed, exit_code, runs,
                   db_at_start, prev_committed, clock>>

\* psycopg2.connect (lines 81-87): outside the try block, so a failure
\* propagates without rollback or close.
Connect ==
    /\ pc = "connect"
    /\ \E ok \in BOOLEAN :
          IF ok
          THEN /\ conn' = "open" /\ tx' = db /\ pc' = "guild"
               /\ raised_at' = raised_at
          ELSE /\ conn' = conn /\ tx' = tx /\ pc' = "raised"
               /\ raised_at' = "connect"
    /\ UNCHANGED <<keyVars, parseVars, data, idx, voice_data, close_count, db,
                   upserted, committed, exit_code, runs, db_at_start,
                   prev_committed, clock>>

\* cur.execute(INSERT INTO guild_settings ...) (lines 93-98).
InsertGuild ==
    /\ pc = "guild"
    /\ \E ok \in BOOLEAN :
          IF ok
          THEN /\ tx' = InsertGuildIfAbsent(tx)
               /\ db' = AfterStatement(db, InsertGuildIfAbsent(tx))
               /\ pc' = "upsert" /\ raised_at' = raised_at
          ELSE /\ tx' = tx /\ db' = db
               /\ pc' = "except" /\ raised_at' = "guild"
    /\ UNCHANGED <<keyVars, parseVars, data, idx, voice_data, conn,
                   close_count, upserted, committed, exit_code, runs,
                   db_at_start, prev_committed, clock>>

\* execute_values(cur, insert_query, insert_data, ...) (lines 101-124).
\* The batch goes to the store in pages; a failure leaves the rows of the
\* pages before it applied in the transaction, here any proper prefix.
ExecuteValues ==
    /\ pc = "upsert"
    /\ \E n \in 0..Len(insert_data) :
          LET pending == [tx EXCEPT !.agg = UpsertRows(tx.agg, insert_data, n, clock)]
          IN  /\ tx' = pending
              /\ db' = AfterStatement(db, pending)
              /\ upserted' = n
              /\ IF n = Len(insert_data)
                 THEN pc' = "commit" /\ raised_at' = raised_at
                 ELSE pc' = "except" /\ raised_at' = "upsert"
    /\ UNCHANGED <<keyVars, parseVars, data, idx, voice_data, conn,
                   close_count, committed, exit_code, runs, db_at_start,
                   prev_committed, clock>>

\* conn.commit() (line 126).
Commit ==
    /\ pc = "commit"
    /\ \E ok \in BOOLEAN :
          IF ok
          THEN /\ db' = tx /\ committed' = TRUE
               /\ pc' = "summary" /\ raised_at' = raised_at
          ELSE /\ db' = db /\ committed' = committed
               /\ pc' = "except" /\ raised_at' = "commit"
    /\ UNCHANGED <<keyVars, parseVars, data, idx, voice_data, conn,
                   close_count, tx, upserted, exit_code, runs, db_at_start,
                   prev_committed, clock>>

\* The summary: the top-5 SELECT, the prints and cur.close()
\* (lines 128-149), still inside the try block.
Summary ==
    /\ pc = "summary"
    /\ \E ok \in BOOLEAN :
          IF ok
          THEN pc' = "finally" /\ raised_at' = raised_at
          ELSE pc' = "except" /\ raised_at' = "summary"
    /\ UNCHANGED <<keyVars, parseVars, data, idx, voice_data, conn,
                   close_count, db, tx, upserted, committed, exit_code, runs,
                   db_at_start, prev_committed, clock>>

\* except Exception: conn.rollback(); print; raise (lines 151-154).  Whether
\* rollback returns or raises itself, an exception leaves the block and the
\* store has dropped what the transaction held.
Rollback ==
    /\ pc = "except"
    /\ tx' = db
    /\ pc' = leave_except
    /\ UNCHANGED <<keyVars, parseVars, data, idx, voice_data, conn,
                   close_count, db, upserted, raised_at, committed, exit_code,
                   runs, db_at_start, prev_committed, clock>>

\* finally: conn.close() (lines 155-156); what the transaction had not
\* committed is discarded with the connection.
Close ==
    /\ pc = "finally"
    /\ conn' = "closed"
    /\ close_count' = close_count + 1
    /\ tx' = db
    /\ pc' = IF raised_at = "none" THEN "returned" ELSE "raised"
    /\ UNCHANGED <<keyVars, parseVars, data, idx, voice_data, db, upserted,
                   raised_at, committed, exit_code, runs, db_at_start,
                   prev_committed, clock>>

\* __main__: migrate_voice_data() returned (lines 159-160).
MainReturn ==
    /\ pc = "returned"
    /\ exit_code' = 0
    /\ pc' = "done"
    /\ UNCHANGED <<keyVars, parseVars, data, idx, voice_data, conn,
                   close_count, db, tx, upserted, raised_at, committed, runs,
                   db_at_start, prev_committed, clock>>

\* __main__: except Exception: print; exit(1) (lines 161-163).
MainExcept ==
    /\ pc = "raised"
    /\ exit_code' = 1
    /\ pc' = "done"
    /\ UNCHANGED <<keyVars, parseVars, data, idx, voice_data, conn,
                   close_count, db, tx, upserted, raised_at, committed, runs,
                   db_at_start, prev_committed, clock>>

\* The script is started again on the same file, no other writer between.
Rerun ==
    /\ pc = "done"
    /\ runs < MaxRuns
    /\ runs' = runs + 1
    /\ clock' = clock + 1
    /\ prev_committed' = committed
    /\ db_at_start' = db
    /\ pc' = "lifetime" /\ idx' = 1 /\ voice_data' = <<>>
    /\ conn' = "none" /\ close_count' = 0 /\ tx' = db /\ upserted' = 0
    /\ raised_at' = "none" /\ committed' = FALSE /\ exit_code' = -1
    /\ UNCHANGED <<keyVars, parseVars, data, db>>


\* --------------------------------------------------- documents and stores
KeyA == <<"a">> \o VoiceSuffix
KeyB == <<"b">> \o VoiceSuffix
KeyAVoice == <<"a">> \o VoiceSuffix \o VoiceSuffix
KeyBare == VoiceSuffix
KeyOther == <<"a", "_", "o", "t", "h", "e", "r">>

Dur7s == <<"0", ":", "0", ":", "0", ":", "7">>
Dur60s == <<"0", ":", "0", ":", "1", ":", "0">>
DurShort == <<"1", ":", "2", ":", "3">>
DurAlpha == <<"a", ":", "2", ":", "3", ":", "4">>

Entry(k, v) == [key |-> k, value |-> v]

\* The sections of at most n items over `pairs`; a JSON object loaded by
\* json.load has each key once.
Sections(pairs, n) ==
    {s \in UNION {[1..k -> pairs] : k \in 0..n} :
        \A i, j \in 1..Len(s) : i # j => s[i].key # s[j].key}

AggPairs ==
    {Entry(k, v) : k \in {KeyA, KeyAVoice, KeyBare, KeyOther},
                   v \in {Dur7s, Dur60s, DurShort}}

RunPairs ==
    {Entry(KeyA, Dur7s), Entry(KeyB, Dur60s), Entry(KeyB, DurAlpha),
     Entry(KeyAVoice, Dur60s), Entry(KeyBare, DurShort)}

\* Stores the script may find: the guild known or not, the aggregate table
\* empty or holding an older row of user "a".
OldRow == [total_seconds |-> 5, weekly_seconds |-> 5, weekly_updated_at |-> 0]

Stores ==
    {[guilds |-> g, agg |-> a] :
        g \in {{}, {GUILD_ID}}, a \in {<<>>, (<<"a">> :> OldRow)}}

StartOfRun ==
    /\ pc = "lifetime" /\ idx = 1 /\ voice_data = <<>>
    /\ conn = "none" /\ close_count = 0 /\ upserted = 0
    /\ raised_at = "none" /\ committed = FALSE /\ exit_code = -1
    /\ runs = 1 /\ prev_committed = FALSE /\ clock = 1
    /\ tx = db /\ db_at_start = db

\* ------------------------------- specification of the aggregation (SpecAgg)
InitAgg ==
    /\ \E l, w \in Sections(AggPairs, MaxEntries) :
          data = [lifetime_sums |-> l, this_week_time_sums |-> w]
    /\ db = EmptyDb
    /\ StartOfRun
    /\ IdleKey /\ IdleParse

NextAgg ==
    \/ ProcessLifetimeItem
    \/ EndLifetimeLoop
    \/ ProcessWeeklyItem
    \/ EndWeeklyLoop

SpecAgg == InitAgg /\ [][NextAgg]_vars

\* ------------------------------------- specification of the script (Spec)
Init ==
    /\ \E l, w \in Sections(RunPairs, MaxEntries) :
          data = [lifetime_sums |-> l, this_week_time_sums |-> w]
    /\ db \in Stores
    /\ StartOfRun
    /\ IdleKey /\ IdleParse

Next ==
    \/ ProcessLifetimeItem
    \/ EndLifetimeLoop
    \/ ProcessWeeklyItem
    \/ EndWeeklyLoop
    \/ Connect
    \/ InsertGuild
    \/ ExecuteValues
    \/ Commit
    \/ Summary
    \/ Rollback
    \/ Close
    \/ MainReturn
    \/ MainExcept
    \/ Rerun

Spec == Init /\ [][Next]_vars


\* ------------------------------------------------------------- the claims
IsVoiceKey(k) == EndsWith(k, VoiceSuffix)

VoiceEntries(section) == {e \in Range(section) : IsVoiceKey(e.key)}

AllVoiceEntries ==
    VoiceEntries(data.lifetime_sums) \cup VoiceEntries(data.this_week_time_sums)

\* The user id the script takes from a voice key.
IdOf(k) == extract_user_id_from_voice_key(k).val

Aggregated == pc = "connect"

\* C4: after the aggregation every voice key of either section has its
\* user id as a key of voice_data, and two distinct voice keys never share
\* one entry of voice_data.
C4_EveryVoiceKeyKept ==
    Aggregated =>
        /\ \A e \in AllVoiceEntries : DictHas(voice_data, IdOf(e.key))
        /\ \A e1, e2 \in AllVoiceEntries :
              e1.key # e2.key => IdOf(e1.key) # IdOf(e2.key)

\* Seconds the voice entries of a section give for user id u.
ValuesFor(section, u) ==
    {parse_time_to_seconds(e.value).val :
        e \in {x \in VoiceEntries(section) : IdOf(x.key) = u}}

\* C5: the entry of every extracted user id u is (lifetime value, 0) when u
\* has only a lifetime entry, (lifetime value, weekly value) when it has
\* both, (weekly value, weekly value) when it has only a weekly entry, and
\* voice_data holds no other entries.
C5_MergeShape ==
    Aggregated =>
        LET ids == {IdOf(e.key) : e \in AllVoiceEntries}
        IN  /\ {voice_data[i].user_id : i \in 1..Len(voice_data)} \subseteq ids
            /\ \A u \in ids :
                  LET L == ValuesFor(data.lifetime_sums, u)
                      W == ValuesFor(data.this_week_time_sums, u)
                  IN  \E i \in 1..Len(voice_data) :
                         /\ voice_data[i].user_id = u
                         /\ (W = {}) =>
                               /\ voice_data[i].lifetime_seconds \in L
                               /\ voice_data[i].weekly_seconds = 0
                         /\ (L # {} /\ W # {}) =>
                               /\ voice_data[i].lifetime_seconds \in L
                               /\ voice_data[i].weekly_seconds \in W
                         /\ (L = {}) =>
                               /\ voice_data[i].weekly_seconds \in W
                               /\ voice_data[i].lifetime_seconds
                                     = voice_data[i].weekly_seconds

\* The two for loops run to their end over the given sections.
RECURSIVE LifetimeLoop(_, _)
LifetimeLoop(d, section) ==
    IF section = <<>> THEN [raised |-> FALSE, dict |-> d]
    ELSE LET r == LifetimeItem(d, Head(section))
         IN  IF r.raised THEN r ELSE LifetimeLoop(r.dict, Tail(section))

RECURSIVE WeeklyLoop(_, _)
WeeklyLoop(d, section) ==
    IF section = <<>> THEN [raised |-> FALSE, dict |-> d]
    ELSE LET r == WeeklyItem(d, Head(section))
         IN  IF r.raised THEN r ELSE WeeklyLoop(r.dict, Tail(section))

AggregateOf(l, w) ==
    LET a == LifetimeLoop(<<>>, l)
    IN  IF a.raised THEN a ELSE WeeklyLoop(a.dict, w)

\* The orders in which the items of a section can be iterated.
Orders(section) ==
    {[i \in 1..Len(section) |-> section[f[i]]] :
        f \in {g \in [1..Len(section) -> 1..Len(section)] :
                  \A i, j \in 1..Len(section) : i # j => g[i] # g[j]}}

\* C10: the final mapping is the same for every order of the keys inside
\* lifetime_sums and inside this_week_time_sums.
C10_OrderIndependent ==
    Aggregated =>
        \A l \in Orders(data.lifetime_sums) :
            \A w \in Orders(data.this_week_time_sums) :
                /\ ~AggregateOf(l, w).raised
                /\ AsMapping(AggregateOf(l, w).dict) = AsMapping(voice_data)

Finished == pc = "done"

BadDuration(e) == ~parse_time_to_seconds(e.value).ok

\* C7: if the duration string of any voice key of either section is not
\* four integer segments, the run exits with code 1, never opens the
\* connection and writes no guild or aggregate row.
C7_FormatErrorAborts ==
    (Finished /\ \E e \in AllVoiceEntries : BadDuration(e)) =>
        /\ exit_code = 1
        /\ conn = "none"
        /\ db = db_at_start

WritePhaseReached == conn # "none"

AllRowsApplied ==
    \A i \in 1..Len(voice_data) :
        /\ voice_data[i].user_id \in DOMAIN db.agg
        /\ db.agg[voice_data[i].user_id].total_seconds
              = voice_data[i].lifetime_seconds
        /\ db.agg[voice_data[i].user_id].weekly_seconds
              = voice_data[i].weekly_seconds
        /\ db.agg[voice_data[i].user_id].weekly_updated_at = clock

\* C1: a run that reaches the write phase ends either with exit code 0 and
\* every aggregate row applied, or with a non-zero exit and no aggregate
\* row of the run applied.
C1_AllOrNothing ==
    (Finished /\ WritePhaseReached) =>
        \/ exit_code = 0 /\ AllRowsApplied
        \/ exit_code # 0 /\ db.agg = db_at_start.agg

\* C2: the guild insert and the batch upsert are one transaction, committed
\* only after both succeeded: until the commit the store is as the run
\* found it (so after a batch that failed partway no row of the run and no
\* newly inserted guild row is there), and a committed transaction holds
\* the guild row and the whole batch.
C2_OneTransaction ==
    /\ ~committed => db = db_at_start
    /\ committed =>
          /\ GUILD_ID \in db.guilds
          /\ upserted = Len(insert_data)
          /\ raised_at \notin {"guild", "upsert", "commit"}

\* A run over two users whose batch failed after the first row, with the
\* guild row new in this run, has ended.
C2_Witness ==
    /\ Finished
    /\ raised_at = "upsert"
    /\ upserted = 1
    /\ Len(voice_data) = 2
    /\ GUILD_ID \notin db_at_start.guilds
    /\ exit_code = 1

\* total_seconds and weekly_seconds of every row.
RowValues(agg) ==
    [u \in DOMAIN agg |-> <<agg[u].total_seconds, agg[u].weekly_seconds>>]

\* C8: a run of the script that follows a run which committed, on the same
\* file, leaves the set of rows and their total_seconds and weekly_seconds
\* as the earlier run left them.
C8_Idempotent ==
    (Finished /\ runs >= 2 /\ prev_committed) =>
        RowValues(db.agg) = RowValues(db_at_start.agg)

\* A second run that committed again, over a row of user "a" that the first
\* run overwrote, and stamped it anew.
C8_Witness ==
    /\ Finished /\ runs = 2 /\ prev_committed /\ committed
    /\ DictHas(voice_data, <<"a">>)
    /\ db.agg[<<"a">>].total_seconds = 7
    /\ db.agg[<<"a">>].weekly_updated_at = clock
    /\ db_at_start.agg[<<"a">>].weekly_updated_at < clock

\* C9: a run that opened the connection has closed it exactly once when
\* migrate_voice_data returns or raises, and a connection is never closed
\* twice.
C9_ClosedOnce ==
    /\ close_count <= 1
    /\ (pc \in {"returned", "raised", "done"} /\ conn # "none") =>
          (conn = "closed" /\ close_count = 1)
    /\ conn = "none" => close_count = 0

\* The connection was closed once after the commit itself failed.
C9_Witness ==
    /\ pc = "raised"
    /\ raised_at = "commit"
    /\ conn = "closed"
    /\ close_count = 1

====
